---- MODULE Spec2Model ----
(* Wallpaper preview controller of static/app.js: three form controls, one  *)
(* nullable currentCharacterId, fire-and-forget preview fetches with two    *)
(* suspension points each (await fetch, await response.text) and a          *)
(* synchronous PNG download through a transient anchor.                     *)
(* Text values (option values, the id field, header digits, query values)   *)
(* are sequences of one-character strings.                                  *)
EXTENDS Integers, Sequences, FiniteSets, TLC

\* ------------------------------------------------------------------ bounds
MaxFetches == 2

\* ------------------------------------------------------------ input sets
CharacterSets == { <<"h","j">>, <<"k","n">> }
IphoneModels  == { <<"1","5">>, <<"1","6">> }
DefaultCharacterSet == <<"h","j">>
DefaultIphoneModel  == <<"1","5">>
FieldValues   == { <<>>, <<" ">>, <<" ","7"," ">> }
DigitStrings  == { <<"0">>, <<"4","2">> }
Bodies        == { "svgA", "svgB" }
Statuses      == { 200, 500 }

\* ------------------------------------------------------------- text helpers
NULL == -1

DigitChars == <<"0","1","2","3","4","5","6","7","8","9">>

IsDigit(c) == \E d \in 1..10 : DigitChars[d] = c

DigitVal(c) == (CHOOSE d \in 1..10 : DigitChars[d] = c) - 1

IsSpace(c) == c \in {" ", "\t", "\n"}

RECURSIVE TrimStart(_)
TrimStart(s) ==
    IF s = <<>> THEN <<>>
    ELSE IF IsSpace(Head(s)) THEN TrimStart(Tail(s)) ELSE s

RECURSIVE TrimEnd(_)
TrimEnd(s) ==
    IF s = <<>> THEN <<>>
    ELSE IF IsSpace(s[Len(s)]) THEN TrimEnd(SubSeq(s, 1, Len(s) - 1)) ELSE s

\* String.prototype.trim
Trim(s) == TrimEnd(TrimStart(s))

\* parseInt(s, 10) on a run of decimal digits (the regex group \d+)
RECURSIVE parseInt(_)
parseInt(s) ==
    IF Len(s) = 1 THEN DigitVal(s[1])
    ELSE 10 * parseInt(SubSeq(s, 1, Len(s) - 1)) + DigitVal(s[Len(s)])

\* String(n) for a non-negative integer, as URLSearchParams.set and the
\* template literal convert a number
RECURSIVE ToStr(_)
ToStr(n) ==
    IF n < 10 THEN <<DigitChars[n + 1]>>
    ELSE ToStr(n \div 10) \o <<DigitChars[(n % 10) + 1]>>

\* -------------------------------------------------------- URLSearchParams
NoParam == <<"<absent>">>

Has(params, k) == \E i \in 1..Len(params) : params[i][1] = k

Get(params, k) ==
    IF Has(params, k)
    THEN params[CHOOSE i \in 1..Len(params) :
                    params[i][1] = k /\ \A j \in 1..(i - 1) : params[j][1] # k][2]
    ELSE NoParam

ParamsSet(params, k, v) ==
    IF Has(params, k)
    THEN [i \in 1..Len(params) |-> IF params[i][1] = k THEN <<k, v>> ELSE params[i]]
    ELSE Append(params, <<k, v>>)

\* ------------------------------------------------------------------ state
VARIABLES
    currentCharacterId,   \* let currentCharacterId: NULL or a number
    characterSet,         \* characterSetSelect.value
    iphoneModel,          \* iphoneModelSelect.value
    characterId,          \* characterIdInput.value (raw, untrimmed)
    previewContainer,     \* previewContainer.innerHTML
    loaded,               \* DOMContentLoaded has fired
    issued,               \* number of fetchPreview calls so far
    fetches,              \* the fetchPreview calls still suspended, in issue order
    lastDone,             \* the fetchPreview call whose completion ran last
    link,                 \* the anchor clicked by the handler that just ran
    triggers,             \* number of listener runs that call fetchPreview
    lastClear,            \* seq of the call issued by the latest clearing listener
    idFrom                \* seq of the call that stored currentCharacterId, 0 if unset

vars == <<currentCharacterId, characterSet, iphoneModel, characterId,
          previewContainer, loaded, issued, fetches, lastDone, link,
          triggers, lastClear, idFrom>>

history == <<triggers, lastClear, idFrom>>

controls == <<characterSet, iphoneModel, characterId>>

\* ------------------------------------------------------ preview contents
InitialMarkup    == [kind |-> "initial"]
LoadingIndicator == [kind |-> "loading"]
ErrorIndicator   == [kind |-> "error"]
Markup(body)     == [kind |-> "markup", body |-> body]

NoHeader == [present |-> FALSE]
NoFetch  == [seq |-> 0]
NoLink   == [clicked |-> FALSE]

\* Content-Disposition values "attachment; filename=wallpaper_<set>_<digits>.<ext>"
Disposition(set, digits, ext) ==
    [present |-> TRUE, set |-> set, digits |-> digits, ext |-> ext]

Dispositions ==
    {NoHeader}
    \cup { Disposition(<<"h","j">>, d, "svg") : d \in DigitStrings }
    \cup { Disposition(<<"h","j">>, <<"4","2">>, "png") }

\* contentDisposition.match(/filename=wallpaper_\w+_(\d+)\.svg/) succeeded
Matches(h) ==
    /\ h.present
    /\ h.set # <<>>
    /\ h.digits # <<>>
    /\ \A i \in 1..Len(h.digits) : IsDigit(h.digits[i])
    /\ h.ext = "svg"

\* response.ok
Ok(status) == status >= 200 /\ status <= 299

\* ---------------------------------------------------------- buildApiUrl
SvgKind == <<"s","v","g">>
PngKind == <<"p","n","g">>

\* buildApiUrl falling back to the stored id whatever the useCurrentId flag
buildApiUrl_alwaysReuse(outputType, useCurrentId, set, model, field, cur) ==
    LET base   == << <<"output_type", outputType>>,
                     <<"character_list", set>>,
                     <<"iphone_model", model>> >>
        charId == Trim(field)
        params == IF charId # <<>>
                  THEN ParamsSet(base, "character_id", charId)
                  ELSE IF cur # NULL
                       THEN ParamsSet(base, "character_id", ToStr(cur))
                       ELSE base
    IN  [path |-> "/hanja-api/wallpaper", params |-> params]

\* buildApiUrl testing the stored id before the field
buildApiUrl_storedFirst(outputType, useCurrentId, set, model, field, cur) ==
    LET base   == << <<"output_type", outputType>>,
                     <<"character_list", set>>,
                     <<"iphone_model", model>> >>
        charId == Trim(field)
        params == IF useCurrentId /\ cur # NULL
                  THEN ParamsSet(base, "character_id", ToStr(cur))
                  ELSE IF charId # <<>>
                       THEN ParamsSet(base, "character_id", charId)
                       ELSE base
    IN  [path |-> "/hanja-api/wallpaper", params |-> params]

\* buildApiUrl testing the stored id for truthiness instead of !== null
buildApiUrl_truthy(outputType, useCurrentId, set, model, field, cur) ==
    LET base   == << <<"output_type", outputType>>,
                     <<"character_list", set>>,
                     <<"iphone_model", model>> >>
        charId == Trim(field)
        params == IF charId # <<>>
                  THEN ParamsSet(base, "character_id", charId)
                  ELSE IF useCurrentId /\ cur # NULL /\ cur # 0
                       THEN ParamsSet(base, "character_id", ToStr(cur))
                       ELSE base
    IN  [path |-> "/hanja-api/wallpaper", params |-> params]

buildApiUrl(outputType, useCurrentId, set, model, field, cur) ==
    LET base   == << <<"output_type", outputType>>,
                     <<"character_list", set>>,
                     <<"iphone_model", model>> >>
        charId == Trim(field)
        params == IF charId # <<>>
                  THEN ParamsSet(base, "character_id", charId)
                  ELSE IF useCurrentId /\ cur # NULL
                       THEN ParamsSet(base, "character_id", ToStr(cur))
                       ELSE base
    IN  [path |-> "/hanja-api/wallpaper", params |-> params]

\* ---------------------------------------------------------- fetchPreview
\* Synchronous part of fetchPreview, up to the first await: showLoading,
\* build the svg URL, hand it to fetch.  The arguments are the values the
\* call reads (the handler may have changed them just before).
\* fetchPreview that leaves the preview as it is until the response arrives
fetchPreview_noLoading(trig, set, model, field, cur) ==
    /\ issued < MaxFetches
    /\ UNCHANGED previewContainer
    /\ issued' = issued + 1
    /\ fetches' = Append(fetches,
           [seq     |-> issued + 1,
            trigger |-> trig,
            url     |-> buildApiUrl(SvgKind, FALSE, set, model, field, cur),
            pc      |-> "fetch",
            header  |-> NoHeader])
    /\ UNCHANGED lastDone
    /\ link' = NoLink

fetchPreview(trig, set, model, field, cur) ==
    /\ issued < MaxFetches
    /\ previewContainer' = LoadingIndicator
    /\ issued' = issued + 1
    /\ fetches' = Append(fetches,
           [seq     |-> issued + 1,
            trigger |-> trig,
            url     |-> buildApiUrl(SvgKind, FALSE, set, model, field, cur),
            pc      |-> "fetch",
            header  |-> NoHeader])
    /\ UNCHANGED lastDone
    /\ link' = NoLink

Without(i) == [j \in 1..(Len(fetches) - 1) |-> IF j < i THEN fetches[j] ELSE fetches[j + 1]]

NoBody == "<none>"

\* Record of a finished call: what it was issued with and what it received
Done(f, result, error, body) ==
    [seq |-> f.seq, trigger |-> f.trigger, url |-> f.url, header |-> f.header,
     result |-> result, error |-> error, body |-> body]

\* catch block that also forgets the stored id
Catch_clearsId(i, error) ==
    /\ previewContainer' = ErrorIndicator
    /\ currentCharacterId' = NULL
    /\ fetches' = Without(i)
    /\ lastDone' = Done(fetches[i], "error", error, NoBody)
    /\ link' = NoLink
    /\ idFrom' = 0
    /\ UNCHANGED <<controls, loaded, issued, triggers, lastClear>>

\* catch block that issues the same request once more
Catch_retries(i, error) ==
    /\ previewContainer' = ErrorIndicator
    /\ IF issued < MaxFetches
       THEN /\ issued' = issued + 1
            /\ fetches' = Append(Without(i),
                   [seq     |-> issued + 1,
                    trigger |-> fetches[i].trigger,
                    url     |-> fetches[i].url,
                    pc      |-> "fetch",
                    header  |-> NoHeader])
       ELSE /\ issued' = issued
            /\ fetches' = Without(i)
    /\ lastDone' = Done(fetches[i], "error", error, NoBody)
    /\ link' = NoLink
    /\ UNCHANGED <<currentCharacterId, controls, loaded, history>>

\* catch block that only logs the error
Catch_silent(i, error) ==
    /\ UNCHANGED previewContainer
    /\ fetches' = Without(i)
    /\ lastDone' = Done(fetches[i], "error", error, NoBody)
    /\ link' = NoLink
    /\ UNCHANGED <<currentCharacterId, controls, loaded, issued, history>>

\* catch (error): the error indicator replaces the preview
Catch(i, error) ==
    /\ previewContainer' = ErrorIndicator
    /\ fetches' = Without(i)
    /\ lastDone' = Done(fetches[i], "error", error, NoBody)
    /\ link' = NoLink
    /\ UNCHANGED <<currentCharacterId, controls, loaded, issued, history>>

\* await fetch(url) resolves with a response
FetchResolve(i, status, h) ==
    /\ fetches[i].pc = "fetch"
    /\ IF ~Ok(status)
       THEN Catch(i, "http")
       ELSE /\ fetches' = [fetches EXCEPT ![i].pc = "text", ![i].header = h]
            /\ link' = NoLink
            /\ UNCHANGED <<currentCharacterId, controls, loaded, issued,
                           previewContainer, lastDone, history>>

\* await fetch(url) rejects (network error)
FetchReject(i) ==
    /\ fetches[i].pc = "fetch"
    /\ Catch(i, "network")

\* completion that stores the reported id only when none is stored yet
TextResolve_keepIfSet(i, body) ==
    /\ fetches[i].pc = "text"
    /\ previewContainer' = Markup(body)
    /\ currentCharacterId' =
           IF Matches(fetches[i].header) /\ currentCharacterId = NULL
           THEN parseInt(fetches[i].header.digits)
           ELSE currentCharacterId
    /\ idFrom' = IF Matches(fetches[i].header) /\ currentCharacterId = NULL
                 THEN fetches[i].seq ELSE idFrom
    /\ fetches' = Without(i)
    /\ lastDone' = Done(fetches[i], "ok", "none", body)
    /\ link' = NoLink
    /\ UNCHANGED <<controls, loaded, issued, triggers, lastClear>>

\* completion behind a request-generation guard: a call that is no longer
\* the most recently issued one leaves the page alone
TextResolve_guarded(i, body) ==
    /\ fetches[i].pc = "text"
    /\ IF fetches[i].seq = issued
       THEN /\ previewContainer' = Markup(body)
            /\ currentCharacterId' =
                   IF Matches(fetches[i].header)
                   THEN parseInt(fetches[i].header.digits)
                   ELSE currentCharacterId
            /\ idFrom' = IF Matches(fetches[i].header) THEN fetches[i].seq ELSE idFrom
       ELSE UNCHANGED <<previewContainer, currentCharacterId, idFrom>>
    /\ fetches' = Without(i)
    /\ lastDone' = Done(fetches[i], "ok", "none", body)
    /\ link' = NoLink
    /\ UNCHANGED <<controls, loaded, issued, triggers, lastClear>>

\* completion that forgets the stored id when the header names no file
TextResolve_clearsOnMiss(i, body) ==
    /\ fetches[i].pc = "text"
    /\ previewContainer' = Markup(body)
    /\ currentCharacterId' =
           IF Matches(fetches[i].header)
           THEN parseInt(fetches[i].header.digits)
           ELSE NULL
    /\ idFrom' = IF Matches(fetches[i].header) THEN fetches[i].seq ELSE 0
    /\ fetches' = Without(i)
    /\ lastDone' = Done(fetches[i], "ok", "none", body)
    /\ link' = NoLink
    /\ UNCHANGED <<controls, loaded, issued, triggers, lastClear>>

\* completion that stores the id but does not inject the body
TextResolve_idOnly(i, body) ==
    /\ fetches[i].pc = "text"
    /\ UNCHANGED previewContainer
    /\ currentCharacterId' =
           IF Matches(fetches[i].header)
           THEN parseInt(fetches[i].header.digits)
           ELSE currentCharacterId
    /\ idFrom' = IF Matches(fetches[i].header) THEN fetches[i].seq ELSE idFrom
    /\ fetches' = Without(i)
    /\ lastDone' = Done(fetches[i], "ok", "none", body)
    /\ link' = NoLink
    /\ UNCHANGED <<controls, loaded, issued, triggers, lastClear>>

\* completion that injects the body and leaves the header for a later turn
TextResolve_injectOnly(i, body) ==
    /\ fetches[i].pc = "text"
    /\ previewContainer' = Markup(body)
    /\ fetches' = Without(i)
    /\ lastDone' = Done(fetches[i], "ok", "none", body)
    /\ link' = NoLink
    /\ UNCHANGED <<currentCharacterId, controls, loaded, issued, history>>

\* await response.text() resolves: inject the body, then read the header
TextResolve(i, body) ==
    /\ fetches[i].pc = "text"
    /\ previewContainer' = Markup(body)
    /\ currentCharacterId' =
           IF Matches(fetches[i].header)
           THEN parseInt(fetches[i].header.digits)
           ELSE currentCharacterId
    /\ idFrom' = IF Matches(fetches[i].header) THEN fetches[i].seq ELSE idFrom
    /\ fetches' = Without(i)
    /\ lastDone' = Done(fetches[i], "ok", "none", body)
    /\ link' = NoLink
    /\ UNCHANGED <<controls, loaded, issued, triggers, lastClear>>

\* await response.text() rejects
TextReject(i) ==
    /\ fetches[i].pc = "text"
    /\ Catch(i, "body")

\* ----------------------------------------------------------- downloadPng
Random == <<"r","a","n","d","o","m">>

\* download that forgets the stored id once the link is clicked
downloadPng_clearsId ==
    /\ link' = [clicked  |-> TRUE,
                href     |-> buildApiUrl(PngKind, TRUE, characterSet, iphoneModel,
                                         characterId, currentCharacterId),
                download |-> [set |-> characterSet,
                              id  |-> IF currentCharacterId # NULL /\ currentCharacterId # 0
                                      THEN ToStr(currentCharacterId)
                                      ELSE Random,
                              ext |-> "png"]]
    /\ currentCharacterId' = NULL
    /\ idFrom' = 0
    /\ UNCHANGED <<controls, previewContainer, loaded, issued, fetches, lastDone,
                   triggers, lastClear>>

downloadPng ==
    /\ link' = [clicked  |-> TRUE,
                href     |-> buildApiUrl(PngKind, TRUE, characterSet, iphoneModel,
                                         characterId, currentCharacterId),
                download |-> [set |-> characterSet,
                              id  |-> IF currentCharacterId # NULL /\ currentCharacterId # 0
                                      THEN ToStr(currentCharacterId)
                                      ELSE Random,
                              ext |-> "png"]]
    /\ UNCHANGED <<currentCharacterId, controls, previewContainer, loaded,
                   issued, fetches, lastDone, history>>

\* -------------------------------------------------------- event listeners
\* refresh listener without the reset of currentCharacterId
RefreshClick_noClear ==
    /\ fetchPreview("refresh", characterSet, iphoneModel, characterId, currentCharacterId)
    /\ triggers' = triggers + 1
    /\ lastClear' = issued + 1
    /\ UNCHANGED <<currentCharacterId, controls, loaded, idFrom>>

RefreshClick ==
    /\ currentCharacterId' = NULL
    /\ fetchPreview("refresh", characterSet, iphoneModel, characterId, NULL)
    /\ triggers' = triggers + 1
    /\ lastClear' = issued + 1
    /\ idFrom' = 0
    /\ UNCHANGED <<controls, loaded>>

CharacterSetChange(s) ==
    /\ s # characterSet
    /\ characterSet' = s
    /\ currentCharacterId' = NULL
    /\ fetchPreview("characterSet", s, iphoneModel, characterId, NULL)
    /\ triggers' = triggers + 1
    /\ lastClear' = issued + 1
    /\ idFrom' = 0
    /\ UNCHANGED <<iphoneModel, characterId, loaded>>

\* device-model listener written like the other change listeners
IphoneModelChange_clears(m) ==
    /\ m # iphoneModel
    /\ iphoneModel' = m
    /\ currentCharacterId' = NULL
    /\ fetchPreview("iphoneModel", characterSet, m, characterId, NULL)
    /\ triggers' = triggers + 1
    /\ lastClear' = issued + 1
    /\ idFrom' = 0
    /\ UNCHANGED <<characterSet, characterId, loaded>>

IphoneModelChange(m) ==
    /\ m # iphoneModel
    /\ iphoneModel' = m
    /\ fetchPreview("iphoneModel", characterSet, m, characterId, currentCharacterId)
    /\ triggers' = triggers + 1
    /\ UNCHANGED <<currentCharacterId, characterSet, characterId, loaded,
                   lastClear, idFrom>>

CharacterIdChange(v) ==
    /\ v # characterId
    /\ characterId' = v
    /\ currentCharacterId' = NULL
    /\ fetchPreview("characterId", characterSet, iphoneModel, v, NULL)
    /\ triggers' = triggers + 1
    /\ lastClear' = issued + 1
    /\ idFrom' = 0
    /\ UNCHANGED <<characterSet, iphoneModel, loaded>>

DOMContentLoaded ==
    /\ ~loaded
    /\ loaded' = TRUE
    /\ fetchPreview("load", characterSet, iphoneModel, characterId, currentCharacterId)
    /\ triggers' = triggers + 1
    /\ UNCHANGED <<currentCharacterId, controls, lastClear, idFrom>>

\* ------------------------------------------------------------ specification
Init ==
    /\ currentCharacterId = NULL
    /\ characterSet = DefaultCharacterSet
    /\ iphoneModel = DefaultIphoneModel
    /\ characterId = <<>>
    /\ previewContainer = InitialMarkup
    /\ loaded = FALSE
    /\ issued = 0
    /\ fetches = <<>>
    /\ lastDone = NoFetch
    /\ link = NoLink
    /\ triggers = 0
    /\ lastClear = 0
    /\ idFrom = 0

Next ==
    \/ DOMContentLoaded
    \/ RefreshClick
    \/ \E s \in CharacterSets : CharacterSetChange(s)
    \/ \E m \in IphoneModels : IphoneModelChange(m)
    \/ \E v \in FieldValues : CharacterIdChange(v)
    \/ downloadPng
    \/ \E i \in 1..Len(fetches) : \E st \in Statuses : \E h \in Dispositions :
           FetchResolve(i, st, h)
    \/ \E i \in 1..Len(fetches) : FetchReject(i)
    \/ \E i \in 1..Len(fetches) : \E b \in Bodies : TextResolve(i, b)
    \/ \E i \in 1..Len(fetches) : TextReject(i)

Spec == Init /\ [][Next]_vars

\* Some suspended call takes its next step.  Every request the browser sends
\* settles (response or network error) and every body read settles.
Complete ==
    \E i \in 1..Len(fetches) :
        \/ \E st \in Statuses : \E h \in Dispositions : FetchResolve(i, st, h)
        \/ FetchReject(i)
        \/ \E b \in Bodies : TextResolve(i, b)
        \/ TextReject(i)

\* The page as the browser schedules it: DOMContentLoaded is dispatched when
\* parsing ends, before any user input reaches the listeners.
FairNext ==
    \/ DOMContentLoaded
    \/ loaded /\ RefreshClick
    \/ loaded /\ \E s \in CharacterSets : CharacterSetChange(s)
    \/ loaded /\ \E m \in IphoneModels : IphoneModelChange(m)
    \/ loaded /\ \E v \in FieldValues : CharacterIdChange(v)
    \/ loaded /\ downloadPng
    \/ Complete

FairSpec == Init /\ [][FairNext]_vars /\ WF_vars(Complete) /\ WF_vars(DOMContentLoaded)

\* ================================================================ properties
StoredIds == {NULL} \cup { parseInt(d) : d \in DigitStrings }

Blank == Trim(characterId) = <<>>

\* buildApiUrl as a handler running now would call it
UrlNow(outputType, useCurrentId, cur) ==
    buildApiUrl(outputType, useCurrentId, characterSet, iphoneModel, characterId, cur)

Param(url, k) == Get(url.params, k)

\* The call issued most recently, suspended or finished
Newest(fs) == fs[Len(fs)]

Issues(trig) ==
    /\ issued' # issued
    /\ Newest(fetches').trigger = trig

Completes == lastDone' # lastDone

\* What a finished call left in the preview area
Outcome(d) == IF d.result = "ok" THEN Markup(d.body) ELSE ErrorIndicator

\* The character a finished call displayed: the one its response names,
\* else the one its request asked for, else not known
ShownId(d) ==
    IF Matches(d.header) THEN ToStr(parseInt(d.header.digits))
    ELSE Param(d.url, "character_id")

\* ---------------------------------------------------------------------- C1
\* C1: whenever the preview holds markup injected by a successful fetch and
\* the id field is blank after trimming, the URL downloadPng builds requests
\* the character set and the character id of the fetch whose markup is shown
\* (compared where that fetch's character is known).
C1_DownloadMatchesPreview ==
    (previewContainer.kind = "markup" /\ Blank) =>
        LET u == UrlNow(PngKind, TRUE, currentCharacterId)
        IN  /\ Param(u, "character_list") = Param(lastDone.url, "character_list")
            /\ ShownId(lastDone) # NoParam =>
                   Param(u, "character_id") = ShownId(lastDone)

\* ---------------------------------------------------------------------- C2
\* C2: with a blank id field the preview URL (svg, id-reuse unset) has exactly
\* the parameters output_type=svg, character_list=S, iphone_model=M and no
\* character_id, for every stored id; so has the URL of the newest request.
PreviewParams ==
    << <<"output_type", SvgKind>>,
       <<"character_list", characterSet>>,
       <<"iphone_model", iphoneModel>> >>

C2_PreviewUrlBlankField ==
    Blank =>
        /\ \A cur \in StoredIds \cup {currentCharacterId} :
               /\ UrlNow(SvgKind, FALSE, cur).params = PreviewParams
               /\ ~Has(UrlNow(SvgKind, FALSE, cur).params, "character_id")
        /\ \A i \in 1..Len(fetches) :
               fetches[i].seq = issued => fetches[i].url.params = PreviewParams
        /\ (issued > 0 /\ lastDone.seq = issued) => lastDone.url.params = PreviewParams

C2_Witness ==
    /\ Blank
    /\ currentCharacterId # NULL
    /\ fetches # <<>>
    /\ Newest(fetches).seq = issued
    /\ Newest(fetches).trigger = "iphoneModel"
    /\ Newest(fetches).url.params = PreviewParams

\* ---------------------------------------------------------------------- C3
\* C3: a field value that is non-empty after trimming is the character_id of
\* every URL built (svg or png, id-reuse set or not), whatever id is stored;
\* " 7 " gives character_id=7.
C3_FieldOverridesStoredId ==
    ~Blank =>
        /\ \A kind \in {SvgKind, PngKind} : \A flag \in BOOLEAN :
           \A cur \in StoredIds \cup {currentCharacterId} :
               /\ Param(UrlNow(kind, flag, cur), "character_id") = Trim(characterId)
               /\ characterId = <<" ","7"," ">> =>
                      Param(UrlNow(kind, flag, cur), "character_id") = <<"7">>
        /\ link.clicked => Param(link.href, "character_id") = Trim(characterId)
        /\ \A i \in 1..Len(fetches) :
               fetches[i].seq = issued =>
                   Param(fetches[i].url, "character_id") = Trim(characterId)

C3_Witness ==
    /\ ~Blank
    /\ currentCharacterId # NULL
    /\ ToStr(currentCharacterId) # Trim(characterId)
    /\ link.clicked
    /\ Param(link.href, "character_id") = <<"7">>

\* ---------------------------------------------------------------------- C4
\* C4: with a blank field and id-reuse set (the download path) the URL has
\* character_id=k when the stored id is k, 0 included, and has no
\* character_id exactly when the stored id is unset.
C4_DownloadReusesStoredId ==
    Blank =>
        /\ \A cur \in StoredIds \cup {currentCharacterId} :
               LET u == UrlNow(PngKind, TRUE, cur)
               IN  /\ (cur = NULL) <=> ~Has(u.params, "character_id")
                   /\ cur # NULL => /\ Param(u, "character_id") = ToStr(cur)
                                    /\ parseInt(Param(u, "character_id")) = cur
        /\ link.clicked =>
               /\ (currentCharacterId = NULL) <=> ~Has(link.href.params, "character_id")
               /\ currentCharacterId # NULL =>
                      parseInt(Param(link.href, "character_id")) = currentCharacterId

C4_Witness ==
    /\ Blank
    /\ currentCharacterId = 0
    /\ link.clicked
    /\ Param(link.href, "character_id") = <<"0">>

\* ---------------------------------------------------------------------- C5
\* C5: a completion with a success status and a header naming
\* wallpaper_<set>_<digits>.svg leaves the stored id equal to the integer
\* value of <digits> and the preview equal to the returned body, whatever was
\* stored before.
C5_SuccessStoresIdAndBody ==
    [][ (Completes /\ lastDone'.result = "ok" /\ Matches(lastDone'.header)) =>
            /\ currentCharacterId' = parseInt(lastDone'.header.digits)
            /\ lastDone'.header.digits = <<"4","2">> => currentCharacterId' = 42
            /\ lastDone'.header.digits = <<"0">> => currentCharacterId' = 0
            /\ previewContainer' = Markup(lastDone'.body) ]_vars

C5_Witness ==
    /\ lastDone.seq = 2
    /\ lastDone.trigger = "iphoneModel"
    /\ lastDone.result = "ok"
    /\ Matches(lastDone.header)
    /\ currentCharacterId = 42
    /\ previewContainer = Markup(lastDone.body)

\* ---------------------------------------------------------------------- C6
\* C6: a completion that fails (network error, status outside 200..299,
\* exception reading the body) leaves the error indicator in the preview and
\* the stored id as it was just before that completion.
C6_FailureKeepsId ==
    [][ (Completes /\ lastDone'.result = "error") =>
            /\ lastDone'.error \in {"network", "http", "body"}
            /\ previewContainer' = ErrorIndicator
            /\ currentCharacterId' = currentCharacterId ]_vars

C6_Witness ==
    /\ lastDone.seq > 0
    /\ lastDone.result = "error"
    /\ lastDone.error = "http"
    /\ currentCharacterId # NULL
    /\ previewContainer = ErrorIndicator

\* ---------------------------------------------------------------------- C7
\* C7: the handlers of refresh, character-set change and id-field change
\* leave the stored id unset in the step that issues their request, whatever
\* was stored before.
ClearingTriggers == {"refresh", "characterSet", "characterId"}

C7_ClearingHandlersReset ==
    [][ (\E t \in ClearingTriggers : Issues(t)) =>
            /\ currentCharacterId' = NULL
            /\ Newest(fetches').pc = "fetch" ]_vars

C7_Witness ==
    /\ lastDone.seq > 0
    /\ lastDone.result = "ok"
    /\ Matches(lastDone.header)
    /\ fetches # <<>>
    /\ Newest(fetches).seq = issued
    /\ Newest(fetches).seq > lastDone.seq
    /\ Newest(fetches).trigger = "refresh"
    /\ Newest(fetches).pc = "fetch"
    /\ currentCharacterId = NULL

\* ---------------------------------------------------------------------- C8
\* C8: no step removes a suspended fetch other than that fetch's own
\* completion, and once none is suspended the preview holds the outcome of
\* the fetch whose completion ran last, whatever the issue order.
C8_LastCompletionWins ==
    /\ []((fetches = <<>> /\ issued > 0) => previewContainer = Outcome(lastDone))
    /\ [][ \A i \in 1..Len(fetches) :
               \/ \E j \in 1..Len(fetches') : fetches'[j].seq = fetches[i].seq
               \/ (Completes /\ lastDone'.seq = fetches[i].seq) ]_vars

C8_Witness ==
    /\ fetches = <<>>
    /\ issued = 2
    /\ lastDone.seq = 1
    /\ lastDone.result = "ok"
    /\ previewContainer = Markup(lastDone.body)

\* ---------------------------------------------------------------------- C9
\* C9: downloadPng changes neither the stored id nor the preview and issues
\* no request; every request issued is an svg request and the png URL is
\* only the target of the clicked link.
C9_DownloadHasNoEffect ==
    /\ [](/\ \A i \in 1..Len(fetches) : Param(fetches[i].url, "output_type") = SvgKind
          /\ lastDone.seq > 0 => Param(lastDone.url, "output_type") = SvgKind
          /\ link.clicked => Param(link.href, "output_type") = PngKind)
    /\ [][ link'.clicked =>
               UNCHANGED <<currentCharacterId, previewContainer, issued, fetches,
                           lastDone, controls, loaded, history>> ]_vars

C9_Witness ==
    /\ link.clicked
    /\ currentCharacterId # NULL
    /\ previewContainer.kind = "markup"
    /\ issued > 0

\* --------------------------------------------------------------------- C10
\* C10: the device-model change handler leaves the stored id as it was; the
\* state after it has the request issued and the loading indicator shown.
C10_ModelChangeKeepsId ==
    [][ Issues("iphoneModel") =>
            /\ currentCharacterId' = currentCharacterId
            /\ previewContainer' = LoadingIndicator
            /\ Newest(fetches').pc = "fetch" ]_vars

C10_Witness ==
    /\ fetches # <<>>
    /\ Newest(fetches).trigger = "iphoneModel"
    /\ Newest(fetches).pc = "fetch"
    /\ Len(fetches) = 1
    /\ previewContainer = LoadingIndicator
    /\ currentCharacterId = 0

\* --------------------------------------------------------------------- C11
\* C11: every step that issues a preview request (load, refresh, any control
\* change) leaves the loading indicator in the preview, so right after a
\* request is issued the preview never still shows earlier markup or an error.
C11_TriggerShowsLoading ==
    [][ issued' # issued =>
            /\ previewContainer' = LoadingIndicator
            /\ Newest(fetches').seq = issued'
            /\ Newest(fetches').pc = "fetch" ]_vars

C11_Witness ==
    /\ lastDone.seq > 0
    /\ lastDone.result = "ok"
    /\ fetches # <<>>
    /\ Newest(fetches).seq = issued
    /\ Newest(fetches).seq > lastDone.seq
    /\ Newest(fetches).trigger = "characterId"
    /\ Newest(fetches).pc = "fetch"
    /\ previewContainer = LoadingIndicator

\* --------------------------------------------------------------------- C12
\* C12: the number of requests issued equals the number of trigger events;
\* each trigger issues exactly one request and a completion, failed or not,
\* issues none.
C12_OneRequestPerTrigger ==
    /\ [](issued = triggers)
    /\ [][ triggers' # triggers =>
               /\ triggers' = triggers + 1
               /\ issued' = issued + 1
               /\ Len(fetches') = Len(fetches) + 1 ]_vars
    /\ [][ Completes =>
               /\ issued' = issued
               /\ Len(fetches') = Len(fetches) - 1 ]_vars

C12_Witness ==
    /\ lastDone.seq = 1
    /\ lastDone.result = "error"
    /\ fetches = <<>>
    /\ issued = 1
    /\ triggers = 1
    /\ link.clicked

\* --------------------------------------------------------------------- C13
\* C13: with a blank id field and a stored id k, the request issued by a
\* device-model change asks for character k.
C13_ModelChangeRequestsStoredId ==
    [][ (Issues("iphoneModel") /\ Blank /\ currentCharacterId # NULL) =>
            Param(Newest(fetches').url, "character_id") = ToStr(currentCharacterId) ]_vars

\* --------------------------------------------------------------------- C14
\* C14: a successful completion whose Content-Disposition header is absent or
\* does not match injects the body and leaves the stored id as it was.
C14_NoMatchKeepsId ==
    [][ (Completes /\ lastDone'.result = "ok" /\ ~Matches(lastDone'.header)) =>
            /\ previewContainer' = Markup(lastDone'.body)
            /\ currentCharacterId' = currentCharacterId ]_vars

C14_Witness ==
    /\ lastDone.seq = 2
    /\ lastDone.result = "ok"
    /\ lastDone.header.present
    /\ ~Matches(lastDone.header)
    /\ previewContainer = Markup(lastDone.body)
    /\ currentCharacterId # NULL

\* --------------------------------------------------------------------- C15
\* C15: the id part of the suggested filename equals the character_id of the
\* download URL whenever the URL has one (from the field or from the stored
\* id, 0 included) and is "random" exactly when the URL has none.
C15_FilenameNamesRequestedId ==
    link.clicked =>
        /\ Has(link.href.params, "character_id") =>
               link.download.id = Param(link.href, "character_id")
        /\ (link.download.id = Random) <=> ~Has(link.href.params, "character_id")

\* --------------------------------------------------------------------- C16
\* C16: whenever an id is stored, it was reported by a fetch issued at or
\* after the most recent clearing action (refresh, character-set change,
\* id-field change).
C16_IdFromCurrentFetch ==
    currentCharacterId # NULL => (idFrom > 0 /\ idFrom >= lastClear)

\* --------------------------------------------------------------------- C17
\* C17: whenever the preview shows the loading indicator, the most recently
\* issued fetch is still suspended.
C17_LoadingMeansNewestPending ==
    previewContainer = LoadingIndicator =>
        /\ fetches # <<>>
        /\ Newest(fetches).seq = issued
        /\ lastDone.seq # issued

C17_Witness ==
    /\ previewContainer = LoadingIndicator
    /\ Len(fetches) = 1
    /\ Newest(fetches).seq = 2
    /\ Newest(fetches).pc = "text"
    /\ lastDone.seq = 1

\* The converse of C17 is not an invariant: an older completion can replace
\* the indicator while the newest fetch is still suspended.
C17_ConverseFails ==
    /\ previewContainer.kind = "markup"
    /\ fetches # <<>>
    /\ Newest(fetches).seq = issued

\* --------------------------------------------------------------------- C18
\* C18: when every suspended call eventually takes its next step, eventually
\* no fetch is suspended and the preview shows markup or the error indicator
\* for good; and nothing but a completion ever takes the loading indicator
\* away (there is no timeout).
C18_EventuallySettled ==
    /\ <>[](fetches = <<>> /\ previewContainer.kind \in {"markup", "error"})
    /\ [][ (previewContainer = LoadingIndicator /\ previewContainer' # LoadingIndicator)
               => Completes ]_vars

C18_Witness ==
    /\ fetches = <<>>
    /\ issued = 2
    /\ lastDone.seq = 1
    /\ previewContainer = ErrorIndicator

\* --------------------------------------------------------------------- C19
\* C19: no state shows the markup of a completion whose header matched while
\* the stored id is not the id of that header; a download in such a state
\* with a blank field asks for that id.
C19_MarkupAndIdTogether ==
    (previewContainer.kind = "markup" /\ Matches(lastDone.header)) =>
        /\ previewContainer = Markup(lastDone.body)
        /\ currentCharacterId = parseInt(lastDone.header.digits)
        /\ (link.clicked /\ Blank) =>
               Param(link.href, "character_id") = ToStr(parseInt(lastDone.header.digits))

C19_Witness ==
    /\ previewContainer.kind = "markup"
    /\ Matches(lastDone.header)
    /\ lastDone.seq = 2
    /\ lastDone.trigger = "iphoneModel"
    /\ currentCharacterId = 42
    /\ Blank
    /\ link.clicked
    /\ Param(link.href, "character_id") = <<"4","2">>

====
